---- MODULE Spec2Model ----
(***************************************************************************)
(* nu_plugin_kcl: the kcl-run and kcl-validate plugin commands and the     *)
(* helpers run_kcl_command / validate_kcl_project they call.               *)
(*                                                                         *)
(* A text (Rust String) is a sequence of tokens, so that format! is        *)
(* concatenation and two texts are equal exactly when they are built from  *)
(* the same pieces.  An argument list is a sequence of texts.  Every       *)
(* Command::output() call is split at its blocking point: the child is     *)
(* spawned (or fails to launch) and later exits.  history is the log of    *)
(* the child processes the plugin asked the operating system for.          *)
(***************************************************************************)
EXTENDS Integers, Sequences, FiniteSets, TLC

VARIABLES pc, call, params, dir, kcl_files, idx, results, all_valid,
          history, ret, hostret

vars == <<pc, call, params, dir, kcl_files, idx, results, all_valid,
          history, ret, hostret>>

(* ------------------------------ bounds -------------------------------- *)
\* longest list given to --define
MaxDefines == 2
\* longest standard output of find, in tokens
MaxStdout == 4

(* ------------------------------ texts --------------------------------- *)
\* U+2705 followed by a space, the prefix of every success text
CheckMark == "[check] "
\* U+274C, the prefix of every failure text
CrossMark == "[cross]"
NL == "\n"

BoundedSeq(S, n) == UNION {[1..k -> S] : k \in 0..n}

RECURSIVE join(_, _)
join(lines, sep) ==
    IF lines = <<>> THEN <<>>
    ELSE IF Len(lines) = 1 THEN lines[1]
    ELSE lines[1] \o <<sep>> \o join(Tail(lines), sep)

\* str::lines(): the pieces between line feeds; a final line feed ends the
\* last line and starts no new one
RECURSIVE lines_from(_, _)
lines_from(text, cur) ==
    IF text = <<>> THEN (IF cur = <<>> THEN <<>> ELSE <<cur>>)
    ELSE IF Head(text) = NL THEN <<cur>> \o lines_from(Tail(text), <<>>)
    ELSE lines_from(Tail(text), Append(cur, Head(text)))

lines(text) == lines_from(text, <<>>)

is_not_empty(line) == line # <<>>

filter_not_empty(ls) == SelectSeq(ls, is_not_empty)

(* ------------------------- nu_protocol values ------------------------- *)
StrVal(s) == [type |-> "String", str |-> s, list |-> <<>>]
IntVal == [type |-> "Int", str |-> <<>>, list |-> <<>>]
ListVal(l) == [type |-> "List", str |-> <<>>, list |-> l]
\* get_flag_value / opt returning None
NoFlag == [type |-> "None", str |-> <<>>, list |-> <<>>]

None == [some |-> FALSE, val |-> <<>>]
Some(v) == [some |-> TRUE, val |-> v]

\* flag.and_then(|v| v.as_str().ok().map(|s| s.to_string()))
as_string(flag) == IF flag.type = "String" THEN Some(flag.str) ELSE None

\* flag.and_then(|v| v.as_list().ok().map(|list| list.to_vec()))
as_list(flag) == IF flag.type = "List" THEN Some(flag.list) ELSE None

RECURSIVE filter_map_str(_)
filter_map_str(l) ==
    IF l = <<>> THEN <<>>
    ELSE IF Head(l).type = "String"
         THEN <<Head(l).str>> \o filter_map_str(Tail(l))
         ELSE filter_map_str(Tail(l))

(* ----------------------- what the host can send ----------------------- *)
FilePaths == {<<"main.k">>, <<"nonexistent.k">>}
ExistingFiles == {<<"main.k">>}
FormatFlags == {NoFlag, StrVal(<<"json">>), IntVal}
OutputFlags == {NoFlag, StrVal(<<"out.json">>)}
Definitions == {<<"foo=bar">>, <<"x=1">>}
ListElems == {StrVal(d) : d \in Definitions} \cup {IntVal}
DefineFlags ==
    {NoFlag} \cup {StrVal(d) : d \in Definitions}
             \cup {ListVal(l) : l \in BoundedSeq(ListElems, MaxDefines)}
DirArgs == {NoFlag, StrVal(<<"project_dir">>)}

(* ----------------------- what a child can answer ---------------------- *)
IoErr == <<"No such file or directory (os error 2)">>

Alive == [kind |-> "alive", code |-> 0, stdout |-> <<>>, stderr |-> <<>>,
          err |-> <<>>]
LaunchError(e) == [kind |-> "io_error", code |-> 0, stdout |-> <<>>,
                   stderr |-> <<>>, err |-> e]
Exited(c, out, errtext) == [kind |-> "exited", code |-> c, stdout |-> out,
                            stderr |-> errtext, err |-> <<>>]

KclStdouts == {<<>>, <<"a: 1", NL>>}
KclStderrs == {<<>>, <<"syntax error", NL>>, <<"Execution error: ">> \o IoErr}

\* the tool exits with a nonzero status on a file that does not exist
KclExitCodes(file) == IF file \in ExistingFiles THEN {0, 1} ELSE {1}

KclOutcomes(file) ==
    {Exited(c, o, e) : c \in KclExitCodes(file), o \in KclStdouts,
                       e \in KclStderrs}

\* the files find lists all exist; the tool may accept or reject each
FileOutcomes ==
    {Exited(c, <<>>, e) : c \in {0, 1}, e \in KclStderrs}

FindTokens == {"a.k", "b.k", NL}
FindOutcomes ==
    {Exited(c, o, <<>>) : c \in {0, 1}, o \in BoundedSeq(FindTokens, MaxStdout)}

success(res) == res.kind = "exited" /\ res.code = 0

(* ------------------------------ results ------------------------------- *)
Pending == [kind |-> "pending", text |-> <<>>]
Ok(t) == [kind |-> "Ok", text |-> t]
Err(t) == [kind |-> "Err", text |-> t]

NoValue == [kind |-> "none", text |-> <<>>, label |-> <<>>]
ValueString(t) == [kind |-> "Value", text |-> t, label |-> <<>>]
LabeledError(msg, label) ==
    [kind |-> "LabeledError", text |-> <<msg>>, label |-> label]

\* match helper(..) { Ok(result) => Ok(Value::string(..)), Err(e) => Err(LabeledError..) }
to_host(r, msg) ==
    IF r.kind = "Ok" THEN ValueString(r.text) ELSE LabeledError(msg, r.text)

(* --------------------------- the child log ---------------------------- *)
Proc(prog, args, res) == [prog |-> prog, args |-> args, res |-> res]

spawn(h, prog, args) == Append(h, Proc(prog, args, Alive))

fail_launch(h, prog, args) == Append(h, Proc(prog, args, LaunchError(IoErr)))

wait(h, res) == [h EXCEPT ![Len(h)].res = res]

(* --------------------------- run_kcl_command -------------------------- *)
RECURSIVE define_args(_)
define_args(defines) ==
    IF defines = <<>> THEN <<>>
    ELSE << <<"-D">>, Head(defines) >> \o define_args(Tail(defines))

output_args(output) ==
    IF output.some THEN << <<"-o">>, output.val >> ELSE <<>>

\* the output pair placed before the definitions
run_args_output_first(file, format, output, defines) ==
    << <<"run">>, file, <<"--format">>, format >>
        \o output_args(output) \o define_args(defines)

run_args(file, format, output, defines) ==
    << <<"run">>, file, <<"--format">>, format >>
        \o define_args(defines) \o output_args(output)

run_launch_error(e) == Err(<<"Error executing kcl: ">> \o e)

\* the output path forgotten on success
run_result_stdout(res, output) ==
    IF success(res) THEN Ok(<<CheckMark>> \o res.stdout)
    ELSE Err(<<CrossMark, ": ">> \o res.stderr)

run_result(res, output) ==
    IF success(res)
    THEN IF output.some THEN Ok(<<CheckMark>> \o output.val)
                        ELSE Ok(<<CheckMark>> \o res.stdout)
    ELSE Err(<<CrossMark, ": ">> \o res.stderr)

(* ------------------------------ KclRun -------------------------------- *)
format_or_default(flag) ==
    IF as_string(flag).some THEN as_string(flag).val ELSE <<"yaml">>

defines_of(flag) ==
    IF as_list(flag).some THEN filter_map_str(as_list(flag).val) ELSE <<>>

NoCall == [cmd |-> "none", file |-> <<>>, format |-> NoFlag,
           output |-> NoFlag, define |-> NoFlag, dir |-> NoFlag]
NoParams == [file |-> <<>>, format |-> <<>>, output |-> None,
             defines |-> <<>>]

KclRun_run(file, format, output, define) ==
    /\ pc = "idle"
    /\ call' = [cmd |-> "kcl-run", file |-> file, format |-> format,
                output |-> output, define |-> define, dir |-> NoFlag]
    /\ params' = [file |-> file,
                  format |-> format_or_default(format),
                  output |-> as_string(output),
                  defines |-> defines_of(define)]
    /\ pc' = "run_cmd"
    /\ UNCHANGED <<dir, kcl_files, idx, results, all_valid, history, ret,
                   hostret>>

params_args ==
    run_args(params.file, params.format, params.output, params.defines)

run_kcl_command_spawn ==
    /\ pc = "run_cmd"
    /\ history' = spawn(history, "kcl", params_args)
    /\ pc' = "run_wait"
    /\ UNCHANGED <<call, params, dir, kcl_files, idx, results, all_valid,
                   ret, hostret>>

run_kcl_command_launch_fail ==
    /\ pc = "run_cmd"
    /\ history' = fail_launch(history, "kcl", params_args)
    /\ ret' = run_launch_error(IoErr)
    /\ hostret' = to_host(ret', "Error executing KCL")
    /\ pc' = "done"
    /\ UNCHANGED <<call, params, dir, kcl_files, idx, results, all_valid>>

run_kcl_command_exit(res) ==
    /\ pc = "run_wait"
    /\ history' = wait(history, res)
    /\ ret' = run_result(res, params.output)
    /\ hostret' = to_host(ret', "Error executing KCL")
    /\ pc' = "done"
    /\ UNCHANGED <<call, params, dir, kcl_files, idx, results, all_valid>>

(* ------------------------ validate_kcl_project ------------------------ *)
find_args(d) == <<d, <<"-name">>, <<"*.k">>, <<"-type">>, <<"f">>>>

validate_args(file) == << <<"run">>, file, <<"--format">>, <<"yaml">> >>

find_launch_error(e) == Err(<<"Error finding KCL files: ">> \o e)

\* an empty project treated as an error
no_files_found_err(d) == Err(<<"No KCL files found in ">> \o d)

no_files_found(d) == Ok(<<"No KCL files found in ">> \o d)

parse_find(res) == filter_not_empty(lines(res.stdout))

valid_line(file) == <<CheckMark>> \o file

invalid_line(file, stderr) == <<CrossMark, " ">> \o file \o <<": ">> \o stderr

\* the launch error written like a tool failure
exec_error_line_plain(file, e) == invalid_line(file, e)

exec_error_line(file, e) ==
    <<CrossMark, " ">> \o file \o <<": ", "Execution error: ">> \o e

file_line(file, res) ==
    IF res.kind = "io_error" THEN exec_error_line(file, res.err)
    ELSE IF success(res) THEN valid_line(file)
    ELSE invalid_line(file, res.stderr)

\* the flag overwritten by the last file's outcome
file_valid_last(valid, res) == success(res)

file_valid(valid, res) == valid /\ success(res)

next_file(i) == i + 1

summary(valid, n) ==
    IF valid THEN <<CheckMark, "All ", ToString(n), " files are valid">>
    ELSE <<CrossMark, " ", "Errors found in some files">>

report(valid, files, rs) ==
    Ok(summary(valid, Len(files)) \o <<NL, NL>> \o join(rs, NL))

KclValidate_run(dirArg) ==
    /\ pc = "idle"
    /\ call' = [NoCall EXCEPT !.cmd = "kcl-validate", !.dir = dirArg]
    /\ dir' = IF as_string(dirArg).some THEN as_string(dirArg).val ELSE <<".">>
    /\ pc' = "find_cmd"
    /\ UNCHANGED <<params, kcl_files, idx, results, all_valid, history, ret,
                   hostret>>

find_spawn ==
    /\ pc = "find_cmd"
    /\ history' = spawn(history, "find", find_args(dir))
    /\ pc' = "find_wait"
    /\ UNCHANGED <<call, params, dir, kcl_files, idx, results, all_valid,
                   ret, hostret>>

find_launch_fail ==
    /\ pc = "find_cmd"
    /\ history' = fail_launch(history, "find", find_args(dir))
    /\ ret' = find_launch_error(IoErr)
    /\ hostret' = to_host(ret', "Error validating KCL project")
    /\ pc' = "done"
    /\ UNCHANGED <<call, params, dir, kcl_files, idx, results, all_valid>>

find_exit(res) ==
    /\ pc = "find_wait"
    /\ history' = wait(history, res)
    /\ kcl_files' = parse_find(res)
    /\ IF kcl_files' = <<>>
       THEN /\ ret' = no_files_found(dir)
            /\ hostret' = to_host(ret', "Error validating KCL project")
            /\ pc' = "done"
            /\ UNCHANGED <<idx, results, all_valid>>
       ELSE /\ results' = <<>>
            /\ all_valid' = TRUE
            /\ idx' = 1
            /\ pc' = "loop"
            /\ UNCHANGED <<ret, hostret>>
    /\ UNCHANGED <<call, params, dir>>

\* the child spawned and not waited for
no_wait == "loop"

after_spawn == "file_wait"

validate_spawn ==
    /\ pc = "loop"
    /\ idx <= Len(kcl_files)
    /\ history' = spawn(history, "kcl", validate_args(kcl_files[idx]))
    /\ pc' = after_spawn
    /\ UNCHANGED <<call, params, dir, kcl_files, idx, results, all_valid,
                   ret, hostret>>

validate_launch_fail ==
    /\ pc = "loop"
    /\ idx <= Len(kcl_files)
    /\ history' = fail_launch(history, "kcl", validate_args(kcl_files[idx]))
    /\ results' = Append(results, file_line(kcl_files[idx], LaunchError(IoErr)))
    /\ all_valid' = file_valid(all_valid, LaunchError(IoErr))
    /\ idx' = next_file(idx)
    /\ UNCHANGED <<pc, call, params, dir, kcl_files, ret, hostret>>

\* the loop left at the first failing file
validate_exit_abort(res) ==
    /\ pc = "file_wait"
    /\ history' = wait(history, res)
    /\ results' = Append(results, file_line(kcl_files[idx], res))
    /\ all_valid' = file_valid(all_valid, res)
    /\ idx' = IF success(res) THEN next_file(idx) ELSE Len(kcl_files) + 1
    /\ pc' = "loop"
    /\ UNCHANGED <<call, params, dir, kcl_files, ret, hostret>>

validate_exit(res) ==
    /\ pc = "file_wait"
    /\ history' = wait(history, res)
    /\ results' = Append(results, file_line(kcl_files[idx], res))
    /\ all_valid' = file_valid(all_valid, res)
    /\ idx' = next_file(idx)
    /\ pc' = "loop"
    /\ UNCHANGED <<call, params, dir, kcl_files, ret, hostret>>

validate_finish ==
    /\ pc = "loop"
    /\ idx > Len(kcl_files)
    /\ ret' = report(all_valid, kcl_files, results)
    /\ hostret' = to_host(ret', "Error validating KCL project")
    /\ pc' = "done"
    /\ UNCHANGED <<call, params, dir, kcl_files, idx, results, all_valid,
                   history>>

(* --------------------------- specification ---------------------------- *)
Init ==
    /\ pc = "idle"
    /\ call = NoCall
    /\ params = NoParams
    /\ dir = <<>>
    /\ kcl_files = <<>>
    /\ idx = 0
    /\ results = <<>>
    /\ all_valid = TRUE
    /\ history = <<>>
    /\ ret = Pending
    /\ hostret = NoValue

Next ==
    \/ \E file \in FilePaths, format \in FormatFlags, output \in OutputFlags,
          define \in DefineFlags : KclRun_run(file, format, output, define)
    \/ run_kcl_command_spawn
    \/ run_kcl_command_launch_fail
    \/ \E res \in KclOutcomes(params.file) : run_kcl_command_exit(res)
    \/ \E dirArg \in DirArgs : KclValidate_run(dirArg)
    \/ find_spawn
    \/ find_launch_fail
    \/ \E res \in FindOutcomes : find_exit(res)
    \/ validate_spawn
    \/ validate_launch_fail
    \/ \E res \in FileOutcomes : validate_exit(res)
    \/ validate_finish

Spec == Init /\ [][Next]_vars

(* ------------------------- reading the state -------------------------- *)
IsRun == call.cmd = "kcl-run"
IsValidate == call.cmd = "kcl-validate"
Finished == pc = "done"

is_kcl(p) == p.prog = "kcl"
\* the per-file children of a validation, in the order they were asked for
KclProcs == SelectSeq(history, is_kcl)

FindExited == history # <<>> /\ history[1].prog = "find"
                  /\ history[1].res.kind = "exited"
FindLaunchFailed == history # <<>> /\ history[1].prog = "find"
                        /\ history[1].res.kind = "io_error"

Processed(i) == i <= Len(KclProcs) /\ KclProcs[i].res.kind # "alive"
Failed(i) == Processed(i) /\ ~success(KclProcs[i].res)
Passed(i) == Processed(i) /\ success(KclProcs[i].res)

StartsWith(text, prefix) ==
    /\ Len(text) >= Len(prefix)
    /\ SubSeq(text, 1, Len(prefix)) = prefix

Header == IF lines(ret.text) = <<>> THEN <<>> ELSE lines(ret.text)[1]
FailingHeader == <<CrossMark, " ", "Errors found in some files">>
AllValidHeader(n) == <<CheckMark, "All ", ToString(n), " files are valid">>

FailLinePrefix(i) == <<CrossMark, " ">> \o kcl_files[i] \o <<": ">>
Detail(i) == SubSeq(results[i], Len(FailLinePrefix(i)) + 1, Len(results[i]))

(* ------------------------------- claims ------------------------------- *)

\* C1 (as stated): when validate has finished after a completed enumeration,
\* the header is 'Errors found in some files' exactly when some discovered
\* file's invocation failed, and otherwise it is 'All N files are valid'
\* with N the number of discovered files -- for every directory, including
\* one with no matching file.
C1_Original ==
    (IsValidate /\ Finished /\ FindExited) =>
        /\ (Header = FailingHeader) <=> (\E i \in 1..Len(kcl_files) : Failed(i))
        /\ (~\E i \in 1..Len(kcl_files) : Failed(i))
               => Header = AllValidHeader(Len(kcl_files))

\* C1 (amended): the same for N >= 1 discovered files; with no discovered
\* file the result is neither header but 'No KCL files found in <dir>'.
C1_Aggregation ==
    (IsValidate /\ Finished /\ FindExited) =>
        /\ (Header = FailingHeader) <=> (\E i \in 1..Len(kcl_files) : Failed(i))
        /\ ((~\E i \in 1..Len(kcl_files) : Failed(i)) /\ kcl_files # <<>>)
               => Header = AllValidHeader(Len(kcl_files))
        /\ kcl_files = <<>> => Header = <<"No KCL files found in ">> \o dir

C1_Witness ==
    /\ IsValidate /\ Finished /\ Len(kcl_files) >= 2
    /\ Failed(1) /\ Passed(2)
    /\ Header = FailingHeader

C3_DiscoveryFailure ==
    (IsValidate /\ (FindLaunchFailed \/ (FindExited /\ history[1].res.code # 0))) =>
        /\ Len(history) = 1
        /\ Finished
        /\ ret.kind = "Err"

\* C4: validate_kcl_project returns Ok only when every discovered file is
\* valid or none was found, and Err when some file fails or find cannot be
\* run; kcl-validate then yields a labeled error.
C4_ErrOnFailure ==
    (IsValidate /\ Finished) =>
        /\ ret.kind = "Ok" => (\A i \in 1..Len(kcl_files) : Passed(i))
        /\ ((\E i \in 1..Len(kcl_files) : Failed(i)) \/ FindLaunchFailed)
               => (ret.kind = "Err" /\ hostret.kind = "LabeledError")

\* the definitions a kcl-run call supplies through --define
Supplied ==
    IF call.define.type = "String" THEN <<call.define.str>>
    ELSE IF call.define.type = "List" THEN filter_map_str(call.define.list)
    ELSE <<>>

is_dash_D(a) == a = <<"-D">>

\* C5: every definition supplied through --define/-D reaches the external
\* tool: the child's argument list holds one ('-D', def) pair per supplied
\* definition.
C5_DefinesReachTool ==
    (IsRun /\ history # <<>>) =>
        LET args == history[1].args IN
        /\ Len(SelectSeq(args, is_dash_D)) = Len(Supplied)
        /\ \A k \in 1..Len(Supplied) :
              \E j \in 1..(Len(args) - 1) :
                  args[j] = <<"-D">> /\ args[j + 1] = Supplied[k]

C7_ArgumentList ==
    (IsRun /\ history # <<>>) =>
        LET args == history[1].args
            n == Len(params.defines)
        IN
        /\ history[1].prog = "kcl"
        /\ Len(args) = 4 + 2 * n + (IF params.output.some THEN 2 ELSE 0)
        /\ args[1] = <<"run">> /\ args[2] = params.file
        /\ args[3] = <<"--format">> /\ args[4] = params.format
        /\ \A k \in 1..n : /\ args[3 + 2 * k] = <<"-D">>
                           /\ args[4 + 2 * k] = params.defines[k]
        /\ params.output.some => /\ args[5 + 2 * n] = <<"-o">>
                                 /\ args[6 + 2 * n] = params.output.val

C7_Witness ==
    /\ IsRun /\ history # <<>>
    /\ Len(params.defines) = 2 /\ params.defines[1] # params.defines[2]
    /\ params.output.some
    /\ Len(history[1].args) = 10

\* C8: when find ran successfully and listed no matching file, validate
\* has finished with the success text 'No KCL files found in <dir>', the
\* host gets a value and not an error, and kcl was never invoked.
C8_NoFiles ==
    (IsValidate /\ FindExited /\ history[1].res.code = 0
        /\ \A i \in 1..Len(lines(history[1].res.stdout)) :
               lines(history[1].res.stdout)[i] = <<>>) =>
        /\ Finished
        /\ ret.kind = "Ok"
        /\ ret.text = <<"No KCL files found in ">> \o dir
        /\ hostret.kind = "Value" /\ hostret.text = ret.text
        /\ KclProcs = <<>>

C8_Witness ==
    /\ IsValidate /\ Finished /\ FindExited
    /\ history[1].res.code = 0 /\ history[1].res.stdout = <<NL>>
    /\ kcl_files = <<>> /\ ret.kind = "Ok"

\* C9 (as stated): the entry of every file whose invocation failed, by a
\* nonzero exit or by a launch failure, is a failure entry with a nonempty
\* detail, and the detail of a launch failure is marked 'Execution error'.
C9_Original ==
    IsValidate =>
        \A i \in 1..Len(results) :
            Failed(i) =>
                /\ StartsWith(results[i], FailLinePrefix(i))
                /\ Detail(i) # <<>>
                /\ KclProcs[i].res.kind = "io_error"
                       => StartsWith(Detail(i), <<"Execution error: ">>)

\* C9 (amended): the entry of every file whose invocation failed is a
\* failure entry; after a nonzero exit its detail is the captured stderr
\* verbatim, which may be empty; after a launch failure its detail is
\* 'Execution error: ' followed by the launch error, hence nonempty, and
\* differs from the detail of every tool failure whose stderr does not
\* itself begin with 'Execution error: '.
C9_FailureDetail ==
    IsValidate =>
        \A i \in 1..Len(results) :
            Failed(i) =>
                /\ StartsWith(results[i], FailLinePrefix(i))
                /\ KclProcs[i].res.kind = "exited"
                       => Detail(i) = KclProcs[i].res.stderr
                /\ KclProcs[i].res.kind = "io_error"
                       => /\ Detail(i) = <<"Execution error: ">> \o KclProcs[i].res.err
                          /\ Detail(i) # <<>>
                          /\ \A s \in KclStderrs :
                                ~StartsWith(s, <<"Execution error: ">>)
                                    => results[i] # FailLinePrefix(i) \o s

C9_Witness ==
    /\ IsValidate /\ Finished /\ Len(results) >= 2
    /\ Failed(1) /\ KclProcs[1].res.kind = "io_error"
    /\ Failed(2) /\ KclProcs[2].res.kind = "exited"
    /\ KclProcs[2].res.stderr = <<>> /\ Detail(2) = <<>>

\* C10: in a validation the enumeration has exited before any per-file
\* invocation exists; the k-th invocation is 'run <k-th file> --format
\* yaml'; only the latest child can be alive, so at most one is and the
\* next starts after the previous has exited; no file is invoked twice or
\* skipped, and the report exists only when every file's child has exited.
C10_Sequential ==
    IsValidate =>
        /\ Cardinality({i \in 1..Len(history) : history[i].res.kind = "alive"}) <= 1
        /\ \A i \in 1..(Len(history) - 1) : history[i].res.kind # "alive"
        /\ history # <<>> => history[1].prog = "find"
        /\ Len(history) >= 2 => history[1].res.kind = "exited"
        /\ Len(history) <= 1 + Len(kcl_files)
        /\ \A i \in 2..Len(history) :
              /\ history[i].prog = "kcl"
              /\ history[i].args =
                     << <<"run">>, kcl_files[i - 1], <<"--format">>, <<"yaml">> >>
        /\ (Finished /\ kcl_files # <<>>) =>
              /\ Len(history) = 1 + Len(kcl_files)
              /\ \A i \in 1..Len(history) : history[i].res.kind # "alive"
              /\ Len(results) = Len(kcl_files)

C10_Witness ==
    /\ IsValidate /\ Finished /\ Len(kcl_files) = 2
    /\ kcl_files[1] # kcl_files[2]
    /\ Len(history) = 3
    /\ history[2].res.kind = "exited" /\ history[3].res.kind = "exited"

====
